---- MODULE Spec2Model ----
(***************************************************************************)
(* Relay control and smoothing-filter simulations of PVRouter-3-phase.     *)
(*                                                                         *)
(*   Spec        simulate_multi_relay_progressive, any balance sequence    *)
(*   SpecRamp    simulate_multi_relay_progressive on a declining ramp      *)
(*   SpecSingle  the single-relay import / surplus referenced controllers  *)
(*   SpecFilter  MultiAlphaTEMA (round_up_to_power_of_2, add_value)        *)
(***************************************************************************)
EXTENDS Integers, FiniteSets, Sequences, TLC

VARIABLES
    \* ---- simulate_multi_relay_progressive ----
    relays,                 \* the list of that name
    i,                      \* index of the tick of the outer loop
    j,                      \* index of the next relay of the inner loop
    current_surplus,        \* net_balance[i]
    prev_states,            \* relay_states[k][i-1]
    relay_states,           \* relay_states[k][i]
    last_state_change,      \* last_state_change[k]
    surplus_for_this_relay, \* the local of that name, per relay, of tick i
    last_flip,              \* last tick t <= i with relay_states[k][t] # relay_states[k][t-1],
                            \* InitialLastChange while the array holds no change
    states_left,            \* on a constant net_balance: the rows of relay_states
                            \* before tick i that differ from the row after them
    \* ---- simulate_with_import_threshold ----
    imp_i, imp_balance, imp_threshold, imp_state,
    \* ---- simulate_with_negative_import_threshold ----
    sur_i, sur_balance, sur_threshold, sur_state, sur_prev,
    \* ---- MultiAlphaTEMA ----
    multi_tema,             \* the object's fields
    tema_input,             \* input_val of the last add_value
    tema_result,            \* the dictionary add_value returned
    tema_status,            \* "ok", or the exception the last call raised
    tema_n,                 \* number of add_value calls made on free inputs
    tema_hold,              \* TRUE once the input is held at tema_input
    tema_raw,               \* the sample of the last call, before int()
    \* ---- run_filter_comparison ----
    cmp_filters,            \* the objects bound to multi_tema, standard_tema, simple_ema
    cmp_pc,                 \* the filter the loop body calls next, or the exception raised
    cmp_consumed,           \* the elements of input_data the loop has taken
    results,                \* the lists of the dictionary of that name
    \* ---- calculate_tema, then calculate_relay_states, on a cloud signal ----
    power_data,             \* the array's shape: level, start and length of the dip
    delay_minutes,          \* argument of calculate_tema
    tema_i,                 \* index of calculate_tema's loop
    tema_regs,              \* element i-1 of the six arrays of calculate_tema
    tema_values,            \* the array calculate_tema returns
    relay_i,                \* index of calculate_relay_states's loop
    cloud_current_state,    \* current_state of calculate_relay_states
    cloud_relay_states,     \* relay_states of calculate_relay_states
    \* ---- the three copies of the accelerated filter on one input ----
    eq_A,                   \* the period given to the class and to calculate_tema
    eq_class,               \* the fields of the MultiAlphaTEMA object
    eq_status,              \* "ok", or the exception add_value raised
    eq_array,               \* element i-1 of the six arrays of calculate_tema
    eq_inline,              \* the six multi_* locals of compare_tema_implementations
    eq_out,                 \* the composite output of each copy at the last tick
    eq_n                    \* number of samples processed

relayVars  == <<relays, i, j, current_surplus, prev_states, relay_states,
                last_state_change, surplus_for_this_relay, last_flip,
                states_left>>
singleVars == <<imp_i, imp_balance, imp_threshold, imp_state,
                sur_i, sur_balance, sur_threshold, sur_state, sur_prev>>
filterVars == <<multi_tema, tema_input, tema_result, tema_status, tema_n,
                tema_hold, tema_raw>>
cmpVars    == <<cmp_filters, cmp_pc, cmp_consumed, results>>
cloudVars  == <<power_data, delay_minutes, tema_i, tema_regs, tema_values,
                relay_i, cloud_current_state, cloud_relay_states>>
equivVars  == <<eq_A, eq_class, eq_status, eq_array, eq_inline, eq_out, eq_n>>
vars       == <<relayVars, singleVars, filterVars, cmpVars, cloudVars,
                equivVars>>

-----------------------------------------------------------------------------
(* Bounds *)

MaxTicks == 42
MaxSimTicks == 3
MaxFilterTicks == 4
MaxPeriod == 33
MaxHoldPeriod == 9
MaxCompareTicks == 3
MaxDelay == 2
MaxDipTicks == 26
MaxConfigTicks == 5
MaxSameTicks == 8
MaxEquivPeriod == 6
MaxEquivTicks == 4

\* net_balance values fed to the multi-relay simulation
Balances == {0, 1050, 2600, 3000, 4000}
\* per-tick decrements of the declining ramp
RampSteps == {20, 500}
\* net_balance values fed to the single-relay simulations
SimBalances == {-500, 0, 500, 1000, 1020, 1050, 1100, 2000}
\* threshold arguments of the single-relay simulations
ImportThresholds == {-50, 0, 50}
NegativeImportThresholds == {-100, -50, 0}
\* raw samples fed to the filter
FilterInputs == {-1000, 0, 300, 1000}
\* level of the cloud signal outside the dip
CloudLevels == {1000, 1200}
\* index of the first sample of the dip
CloudStarts == {25, 400}

-----------------------------------------------------------------------------
(* Helpers *)

abs(x) == IF x < 0 THEN -x ELSE x

max(a, b) == IF a >= b THEN a ELSE b

-----------------------------------------------------------------------------
(* simulate_multi_relay_progressive *)

builtin_relays ==
    [k \in 0..1 |->
        IF k = 0
        THEN [power |-> 2500, threshold |-> -100, priority |-> 1,
              min_on_time |-> 20, min_off_time |-> 20]
        ELSE [power |-> 1000, threshold |-> -50, priority |-> 2,
              min_on_time |-> 0, min_off_time |-> 0]]

\* the list edited to two equal loads without minimum times
zero_dwell_relays ==
    [k \in 0..1 |->
        [power |-> 2000, threshold |-> -50, priority |-> k + 1,
         min_on_time |-> 0, min_off_time |-> 0]]

\* the list edited to a heat pump with minimum times 2 and 999
long_off_relays ==
    [k \in 0..1 |->
        IF k = 0
        THEN [power |-> 2500, threshold |-> -100, priority |-> 1,
              min_on_time |-> 2, min_off_time |-> 999]
        ELSE [power |-> 1000, threshold |-> -50, priority |-> 2,
              min_on_time |-> 0, min_off_time |-> 0]]

\* the list edited to three loads
three_relays ==
    [k \in 0..2 |->
        IF k = 0
        THEN [power |-> 2500, threshold |-> -100, priority |-> 1,
              min_on_time |-> 2, min_off_time |-> 2]
        ELSE IF k = 1
        THEN [power |-> 1000, threshold |-> -50, priority |-> 2,
              min_on_time |-> 0, min_off_time |-> 0]
        ELSE [power |-> 500, threshold |-> -50, priority |-> 3,
              min_on_time |-> 0, min_off_time |-> 1]]

\* the list edited to a load without power and with a negative minimum
\* time, and to two loads of the same priority
no_power_relays ==
    [k \in 0..1 |->
        IF k = 0
        THEN [power |-> 0, threshold |-> -100, priority |-> 1,
              min_on_time |-> -1, min_off_time |-> 0]
        ELSE [power |-> 1000, threshold |-> -50, priority |-> 1,
              min_on_time |-> 0, min_off_time |-> 0]]

RelayConfigs ==
    {builtin_relays, zero_dwell_relays, long_off_relays, three_relays,
     no_power_relays}

NumRelays == Cardinality(DOMAIN relays)

InitialLastChange == -999

\* was_on = relay_states[j][i-1] if i > 0 else False
was_on_of(jj, ii, prev) == IF ii > 0 THEN prev[jj] ELSE FALSE

\* the loop over k that sums the power of the other relays
RECURSIVE other_relay_sum(_, _, _)
other_relay_sum(k, jj, prev) ==
    IF k >= NumRelays THEN 0
    ELSE (IF k # jj /\ prev[k] THEN relays[k].power ELSE 0)
         + other_relay_sum(k + 1, jj, prev)

\* the sum taken over the states already written for tick i
other_relay_load_same_pass(jj, ii, prev, cur) ==
    IF ii > 0 THEN other_relay_sum(0, jj, cur) ELSE 0

\* other_relay_load, read from the states of tick i-1
other_relay_load(jj, ii, prev, cur) ==
    IF ii > 0 THEN other_relay_sum(0, jj, prev) ELSE 0

turn_on_threshold(relay) == relay.power + abs(relay.threshold)

can_turn_on_no_dwell(was_on, surplus, time_since_change, relay) ==
    /\ ~was_on
    /\ surplus > turn_on_threshold(relay)

can_turn_on_ignoring_state(was_on, surplus, time_since_change, relay) ==
    /\ surplus > turn_on_threshold(relay)
    /\ time_since_change >= relay.min_off_time

can_turn_on_strict_dwell(was_on, surplus, time_since_change, relay) ==
    /\ ~was_on
    /\ surplus > turn_on_threshold(relay)
    /\ time_since_change > relay.min_off_time

can_turn_on(was_on, surplus, time_since_change, relay) ==
    /\ ~was_on
    /\ surplus > turn_on_threshold(relay)
    /\ time_since_change >= relay.min_off_time

can_turn_off_at_or_below(was_on, surplus, time_since_change, relay) ==
    /\ was_on
    /\ surplus - relay.power <= abs(relay.threshold)
    /\ time_since_change >= relay.min_on_time

can_turn_off_no_dwell(was_on, surplus, time_since_change, relay) ==
    /\ was_on
    /\ surplus - relay.power < abs(relay.threshold)

can_turn_off(was_on, surplus, time_since_change, relay) ==
    /\ was_on
    /\ surplus - relay.power < abs(relay.threshold)
    /\ time_since_change >= relay.min_on_time

\* one iteration of the inner loop: relay j of tick i
EvalRelay ==
    /\ j < NumRelays
    /\ LET relay   == relays[j]
           was_on  == was_on_of(j, i, prev_states)
           tsc     == i - last_state_change[j]
           surplus == current_surplus
                        - other_relay_load(j, i, prev_states, relay_states)
           on      == can_turn_on(was_on, surplus, tsc, relay)
           off     == can_turn_off(was_on, surplus, tsc, relay)
           new     == IF on THEN TRUE ELSE IF off THEN FALSE ELSE was_on
       IN /\ surplus_for_this_relay' =
                 [surplus_for_this_relay EXCEPT ![j] = surplus]
          /\ relay_states' = [relay_states EXCEPT ![j] = new]
          /\ last_state_change' =
                 IF on \/ off
                 THEN [last_state_change EXCEPT ![j] = i]
                 ELSE last_state_change
          /\ last_flip' =
                 IF new # was_on THEN [last_flip EXCEPT ![j] = i] ELSE last_flip
    /\ j' = j + 1
    /\ UNCHANGED <<relays, i, current_surplus, prev_states, states_left>>
    /\ UNCHANGED <<singleVars, filterVars, cmpVars, cloudVars, equivVars>>

\* the state a new tick of the outer loop starts from
StartTick(ii, nb) ==
    /\ i' = ii
    /\ j' = 0
    /\ current_surplus' = nb
    /\ prev_states' = relay_states
    /\ relay_states' = [k \in DOMAIN relays |-> FALSE]
    /\ surplus_for_this_relay' = [k \in DOMAIN relays |-> 0]
    /\ UNCHANGED <<relays, last_state_change, last_flip>>
    /\ UNCHANGED <<singleVars, filterVars, cmpVars, cloudVars, equivVars>>

\* the outer loop moves to the next element of net_balance
NextTick ==
    /\ j = NumRelays
    /\ i + 1 < MaxTicks
    /\ \E nb \in Balances : StartTick(i + 1, nb)
    /\ UNCHANGED states_left

\* the outer loop on a short net_balance, for any list of relays
NextTickConfig ==
    /\ j = NumRelays
    /\ i + 1 < MaxConfigTicks
    /\ \E nb \in Balances : StartTick(i + 1, nb)
    /\ UNCHANGED states_left

\* the outer loop on a net_balance that holds the same value at every index
NextTickSame ==
    /\ j = NumRelays
    /\ i + 1 < MaxSameTicks
    /\ StartTick(i + 1, current_surplus)
    /\ states_left' = IF relay_states # prev_states
                      THEN states_left \cup {prev_states}
                      ELSE states_left

\* the outer loop on a balance that declines from 4000 W to 0 W
NextTickRamp ==
    /\ j = NumRelays
    /\ current_surplus > 0
    /\ \E d \in RampSteps : StartTick(i + 1, max(0, current_surplus - d))
    /\ UNCHANGED states_left

RelaysStartWith(cfg, nb) ==
    /\ relays = cfg
    /\ i = 0
    /\ j = 0
    /\ current_surplus = nb
    /\ prev_states = [k \in DOMAIN relays |-> FALSE]
    /\ relay_states = [k \in DOMAIN relays |-> FALSE]
    /\ last_state_change = [k \in DOMAIN relays |-> InitialLastChange]
    /\ surplus_for_this_relay = [k \in DOMAIN relays |-> 0]
    /\ last_flip = [k \in DOMAIN relays |-> InitialLastChange]
    /\ states_left = {}

RelaysStart(nb) == RelaysStartWith(builtin_relays, nb)

InitConfig == \E cfg \in RelayConfigs, nb \in Balances : RelaysStartWith(cfg, nb)

InitRelays == \E nb \in Balances : RelaysStart(nb)

InitRamp == RelaysStart(4000)

PassDone == j = NumRelays

-----------------------------------------------------------------------------
(* simulate_with_import_threshold / simulate_import_threshold *)

RelayPower == 1000

battery_output_absent(surplus_after_relay) == 0

\* battery_output = max(0, -surplus_after_relay)
battery_output(surplus_after_relay) == max(0, -surplus_after_relay)

\* one iteration of the loop; the value stored in relay_state[i]
import_threshold_step(current_state, nb, relay_power, threshold) ==
    LET turned_on == IF ~current_state /\ nb > relay_power
                     THEN TRUE ELSE current_state
        surplus_after_relay == nb - (IF turned_on THEN relay_power ELSE 0)
        grid_power == surplus_after_relay + battery_output(surplus_after_relay)
    IN IF turned_on /\ grid_power < -threshold THEN FALSE ELSE turned_on

ImportStep ==
    /\ imp_i < MaxSimTicks
    /\ \E nb \in SimBalances :
          /\ imp_balance' = nb
          /\ imp_state' = import_threshold_step(imp_state, nb, RelayPower,
                                                imp_threshold)
    /\ imp_i' = imp_i + 1
    /\ UNCHANGED <<imp_threshold, sur_i, sur_balance, sur_threshold,
                   sur_state, sur_prev>>
    /\ UNCHANGED <<relayVars, filterVars, cmpVars, cloudVars, equivVars>>

(* simulate_with_negative_import_threshold / simulate_negative_import_threshold *)

turn_off_test_on_import(surplus_after_relay, import_threshold) ==
    surplus_after_relay < -abs(import_threshold)

\* surplus_after_relay < abs(import_threshold)
turn_off_test(surplus_after_relay, import_threshold) ==
    surplus_after_relay < abs(import_threshold)

negative_import_threshold_step(current_state, nb, relay_power, import_threshold) ==
    LET turned_on == IF ~current_state /\ nb > relay_power
                     THEN TRUE ELSE current_state
        surplus_after_relay == nb - (IF turned_on THEN relay_power ELSE 0)
    IN IF turned_on /\ turn_off_test(surplus_after_relay, import_threshold)
       THEN FALSE ELSE turned_on

SurplusStep ==
    /\ sur_i < MaxSimTicks
    /\ \E nb \in SimBalances :
          /\ sur_balance' = nb
          /\ sur_state' = negative_import_threshold_step(
                              sur_state, nb, RelayPower, sur_threshold)
    /\ sur_prev' = sur_state
    /\ sur_i' = sur_i + 1
    /\ UNCHANGED <<sur_threshold, imp_i, imp_balance, imp_threshold, imp_state>>
    /\ UNCHANGED <<relayVars, filterVars, cmpVars, cloudVars, equivVars>>

SingleStart(t, nt) ==
    /\ imp_i = 0
    /\ imp_balance = 0
    /\ imp_threshold = t
    /\ imp_state = FALSE
    /\ sur_i = 0
    /\ sur_balance = 0
    /\ sur_threshold = nt
    /\ sur_state = FALSE
    /\ sur_prev = FALSE

InitSingle ==
    \E t \in ImportThresholds, nt \in NegativeImportThresholds :
        SingleStart(t, nt)

-----------------------------------------------------------------------------
(* round_up_to_power_of_2 and MultiAlphaTEMA *)

\* v & w on non-negative integers
RECURSIVE BitAnd(_, _)
BitAnd(v, w) ==
    IF v = 0 \/ w = 0 THEN 0
    ELSE (IF v % 2 = 1 /\ w % 2 = 1 THEN 1 ELSE 0)
         + 2 * BitAnd(v \div 2, w \div 2)

\* int(math.log2(v)) for v >= 1
RECURSIVE int_log2(_)
int_log2(v) == IF v <= 1 THEN 0 ELSE 1 + int_log2(v \div 2)

round_up_to_power_of_2_next(v) ==
    IF BitAnd(v, v - 1) = 0
    THEN int_log2(v) - 1
    ELSE int_log2(v) + 1

round_up_to_power_of_2_no_offset(v) == int_log2(v)

round_up_to_power_of_2(v) ==
    IF BitAnd(v, v - 1) = 0
    THEN int_log2(v) - 1
    ELSE int_log2(v)

\* x >> s for s >= 0 (Python's >> floors, also for negative x)
shift_right(x, s) == x \div (2 ^ s)

\* MultiAlphaTEMA.__init__ followed by reset
new_multi_tema(A) ==
    LET shift == round_up_to_power_of_2(A)
    IN [A |-> A,
        shift_A |-> shift,
        shift_A_half |-> shift - 1,
        shift_A_quarter |-> shift - 2,
        ema_raw |-> 0, ema |-> 0,
        ema_ema_raw |-> 0, ema_ema |-> 0,
        ema_ema_ema_raw |-> 0, ema_ema_ema |-> 0]

NoResult == [ema |-> 0, dema |-> 0, tema |-> 0]

\* the second stage fed with the first stage's output of the previous call
stage2_input_stale(f, fresh_ema) == f.ema

\* the second stage fed with the first stage's accumulator
stage2_input_from_accumulator(f, fresh_ema) == f.ema_raw

\* the value the second stage accumulates: self.ema, just updated
stage2_input(f, fresh_ema) == fresh_ema

\* MultiAlphaTEMA.add_value: the fields after the call, what it returned,
\* and "ValueError" where a negative shift count stops it part-way
add_value(f, input_val) ==
    LET raw1 == f.ema_raw - f.ema + input_val
        f1   == [f EXCEPT !.ema_raw = raw1]
    IN IF f.shift_A < 0
       THEN [obj |-> f1, result |-> NoResult, status |-> "ValueError"]
       ELSE
       LET e1   == shift_right(raw1, f.shift_A)
           raw2 == f.ema_ema_raw - f.ema_ema + stage2_input(f, e1)
           f2   == [f1 EXCEPT !.ema = e1, !.ema_ema_raw = raw2]
       IN IF f.shift_A_half < 0
          THEN [obj |-> f2, result |-> NoResult, status |-> "ValueError"]
          ELSE
          LET e2   == shift_right(raw2, f.shift_A_half)
              raw3 == f.ema_ema_ema_raw - f.ema_ema_ema + e2
              f3   == [f2 EXCEPT !.ema_ema = e2, !.ema_ema_ema_raw = raw3]
          IN IF f.shift_A_quarter < 0
             THEN [obj |-> f3, result |-> NoResult, status |-> "ValueError"]
             ELSE
             LET e3 == shift_right(raw3, f.shift_A_quarter)
             IN [obj |-> [f3 EXCEPT !.ema_ema_ema = e3],
                 result |-> [ema  |-> e1,
                             dema |-> (e1 * 2) - e2,
                             tema |-> 3 * (e1 - e2) + e3],
                 status |-> "ok"]

\* a sample as the caller holds it: a float, finite or infinite (sign -1, 1)
finite_sample(x) == [finite |-> TRUE, value |-> x]

infinite_sample(sign) == [finite |-> FALSE, value |-> sign]

\* samples of an input array that may hold infinities
RawInputs ==
    {finite_sample(x) : x \in FilterInputs} \cup {infinite_sample(-1), infinite_sample(1)}

\* int(input_val): the integer part of a finite float, OverflowError
\* ("cannot convert float infinity to integer") otherwise
python_int(v) ==
    IF v.finite
    THEN [status |-> "ok", value |-> v.value]
    ELSE [status |-> "OverflowError", value |-> 0]

\* MultiAlphaTEMA.add_value on a float sample: int(input_val) is evaluated
\* inside the first assignment, so when it raises no field is written
add_raw_value(f, input_val) ==
    LET n == python_int(input_val)
    IN IF n.status # "ok"
       THEN [obj |-> f, result |-> NoResult, status |-> n.status]
       ELSE add_value(f, n.value)

AddValue ==
    /\ tema_status = "ok"
    /\ ~tema_hold
    /\ tema_n < MaxFilterTicks
    /\ \E x \in FilterInputs :
          LET r == add_value(multi_tema, x)
          IN /\ multi_tema' = r.obj
             /\ tema_result' = r.result
             /\ tema_status' = r.status
             /\ tema_input' = x
             /\ tema_raw' = finite_sample(x)
    /\ tema_n' = tema_n + 1
    /\ UNCHANGED tema_hold
    /\ UNCHANGED <<relayVars, singleVars, cmpVars, cloudVars, equivVars>>

\* add_value called with a constant input: any sample when the hold starts,
\* the same sample from then on
AddSameValue ==
    /\ tema_status = "ok"
    /\ \E x \in (IF tema_hold THEN {tema_input} ELSE FilterInputs) :
          LET r == add_value(multi_tema, x)
          IN /\ multi_tema' = r.obj
             /\ tema_result' = r.result
             /\ tema_status' = r.status
             /\ tema_input' = x
             /\ tema_raw' = finite_sample(x)
    /\ tema_hold' = TRUE
    /\ UNCHANGED tema_n
    /\ UNCHANGED <<relayVars, singleVars, cmpVars, cloudVars, equivVars>>

\* one iteration of a loop over an array of float samples; an exception
\* leaves the loop
AddRawValue ==
    /\ tema_status = "ok"
    /\ ~tema_hold
    /\ tema_n < MaxFilterTicks
    /\ \E v \in RawInputs :
          LET r == add_raw_value(multi_tema, v)
          IN /\ multi_tema' = r.obj
             /\ tema_result' = r.result
             /\ tema_status' = r.status
             /\ tema_input' = IF v.finite THEN v.value ELSE tema_input
             /\ tema_raw' = v
    /\ tema_n' = tema_n + 1
    /\ UNCHANGED tema_hold
    /\ UNCHANGED <<relayVars, singleVars, cmpVars, cloudVars, equivVars>>

FilterStart(A) ==
    /\ multi_tema = new_multi_tema(A)
    /\ tema_input = 0
    /\ tema_result = NoResult
    /\ tema_status = "ok"
    /\ tema_n = 0
    /\ tema_hold = FALSE
    /\ tema_raw = finite_sample(0)

InitFilter == \E A \in 1..MaxPeriod : FilterStart(A)

InitHold == \E A \in 1..MaxHoldPeriod : FilterStart(A)

-----------------------------------------------------------------------------
(* StandardTEMA, SimpleEMA and run_filter_comparison *)

\* StandardTEMA.__init__ followed by reset
new_standard_tema(A) ==
    [A |-> A,
     shift_A |-> round_up_to_power_of_2(A),
     ema_raw |-> 0, ema |-> 0,
     ema_ema_raw |-> 0, ema_ema |-> 0,
     ema_ema_ema_raw |-> 0, ema_ema_ema |-> 0]

\* SimpleEMA.__init__ followed by reset
new_simple_ema(A) ==
    [A |-> A, shift_A |-> round_up_to_power_of_2(A), ema_raw |-> 0, ema |-> 0]

\* StandardTEMA.add_value: the three stages shift by the same shift_A
standard_add_value(f, input_val) ==
    LET raw1 == f.ema_raw - f.ema + input_val
        f1   == [f EXCEPT !.ema_raw = raw1]
    IN IF f.shift_A < 0
       THEN [obj |-> f1, result |-> NoResult, status |-> "ValueError"]
       ELSE
       LET e1   == shift_right(raw1, f.shift_A)
           raw2 == f.ema_ema_raw - f.ema_ema + e1
           e2   == shift_right(raw2, f.shift_A)
           raw3 == f.ema_ema_ema_raw - f.ema_ema_ema + e2
           e3   == shift_right(raw3, f.shift_A)
       IN [obj |-> [f1 EXCEPT !.ema = e1,
                              !.ema_ema_raw = raw2, !.ema_ema = e2,
                              !.ema_ema_ema_raw = raw3, !.ema_ema_ema = e3],
           result |-> [ema  |-> e1,
                       dema |-> (e1 * 2) - e2,
                       tema |-> 3 * (e1 - e2) + e3],
           status |-> "ok"]

\* one stage that accumulates the input without taking self.ema off
simple_add_value_unsubtracted(f, input_val) ==
    LET raw1 == f.ema_raw + input_val
        f1   == [f EXCEPT !.ema_raw = raw1]
    IN IF f.shift_A < 0
       THEN [obj |-> f1, result |-> 0, status |-> "ValueError"]
       ELSE LET e1 == shift_right(raw1, f.shift_A)
            IN [obj |-> [f1 EXCEPT !.ema = e1], result |-> e1, status |-> "ok"]

\* SimpleEMA.add_value: one stage, returns self.ema
simple_add_value(f, input_val) ==
    LET raw1 == f.ema_raw - f.ema + input_val
        f1   == [f EXCEPT !.ema_raw = raw1]
    IN IF f.shift_A < 0
       THEN [obj |-> f1, result |-> 0, status |-> "ValueError"]
       ELSE LET e1 == shift_right(raw1, f.shift_A)
            IN [obj |-> [f1 EXCEPT !.ema = e1], result |-> e1, status |-> "ok"]

\* the first-stage registers kept in one place for all objects
set_fields_stage1_shared(objs, name, obj) ==
    [n \in DOMAIN objs |->
        IF n = name THEN obj
        ELSE [objs[n] EXCEPT !.ema_raw = obj.ema_raw, !.ema = obj.ema]]

\* self.<field> = ... in a method called on the object bound to `name`
set_fields(objs, name, obj) == [objs EXCEPT ![name] = obj]

\* simple_result = simple_ema.add_value(sample), on the next sample
SimpleAddOf(sample) ==
    /\ cmp_pc = "simple_ema"
    /\ LET r == simple_add_value(cmp_filters.simple_ema, sample)
       IN /\ cmp_filters' = set_fields(cmp_filters, "simple_ema", r.obj)
          /\ IF r.status = "ok"
             THEN /\ results' = [results EXCEPT
                                    !.simple_ema = Append(@, r.result)]
                  /\ cmp_pc' = "multi_tema"
             ELSE /\ results' = results
                  /\ cmp_pc' = r.status
    /\ cmp_consumed' = Append(cmp_consumed, sample)
    /\ UNCHANGED <<relayVars, singleVars, filterVars, cloudVars, equivVars>>

\* the loop over any input_data
SimpleAdd ==
    /\ Len(cmp_consumed) < MaxCompareTicks
    /\ \E x \in FilterInputs : SimpleAddOf(x)

\* scenarios['step']['data']: np.zeros(10) followed by np.ones(70) * 1000
step_data == [n \in 1..80 |-> IF n <= 10 THEN 0 ELSE 1000]

\* the loop over the step scenario
SimpleAddStep ==
    /\ Len(cmp_consumed) < Len(step_data)
    /\ SimpleAddOf(step_data[Len(cmp_consumed) + 1])

\* multi_result = multi_tema.add_value(sample)
MultiAdd ==
    /\ cmp_pc = "multi_tema"
    /\ LET sample == cmp_consumed[Len(cmp_consumed)]
           r == add_value(cmp_filters.multi_tema, sample)
       IN /\ cmp_filters' = set_fields(cmp_filters, "multi_tema", r.obj)
          /\ IF r.status = "ok"
             THEN /\ results' = [results EXCEPT
                                    !.multi_ema = Append(@, r.result.ema),
                                    !.multi_dema = Append(@, r.result.dema),
                                    !.multi_tema = Append(@, r.result.tema)]
                  /\ cmp_pc' = "standard_tema"
             ELSE /\ results' = results
                  /\ cmp_pc' = r.status
    /\ UNCHANGED cmp_consumed
    /\ UNCHANGED <<relayVars, singleVars, filterVars, cloudVars, equivVars>>

\* standard_result = standard_tema.add_value(sample)
StandardAdd ==
    /\ cmp_pc = "standard_tema"
    /\ LET sample == cmp_consumed[Len(cmp_consumed)]
           r == standard_add_value(cmp_filters.standard_tema, sample)
       IN /\ cmp_filters' = set_fields(cmp_filters, "standard_tema", r.obj)
          /\ IF r.status = "ok"
             THEN /\ results' = [results EXCEPT
                                    !.standard_ema = Append(@, r.result.ema),
                                    !.standard_dema = Append(@, r.result.dema),
                                    !.standard_tema = Append(@, r.result.tema)]
                  /\ cmp_pc' = "simple_ema"
             ELSE /\ results' = results
                  /\ cmp_pc' = r.status
    /\ UNCHANGED cmp_consumed
    /\ UNCHANGED <<relayVars, singleVars, filterVars, cloudVars, equivVars>>

\* the three constructors and the empty result lists
CompareStart(A) ==
    /\ cmp_filters = [multi_tema |-> new_multi_tema(A),
                      standard_tema |-> new_standard_tema(A),
                      simple_ema |-> new_simple_ema(A)]
    /\ cmp_pc = "simple_ema"
    /\ cmp_consumed = <<>>
    /\ results = [simple_ema |-> <<>>,
                  multi_ema |-> <<>>, multi_dema |-> <<>>, multi_tema |-> <<>>,
                  standard_ema |-> <<>>, standard_dema |-> <<>>,
                  standard_tema |-> <<>>]

InitCompare == \E A \in 1..MaxPeriod : CompareStart(A)

-----------------------------------------------------------------------------
(* calculate_tema and calculate_relay_states *)

\* power_data[n]: cloud_data of generate_test_scenarios, 300 W during the dip
cloud_data(pd, n) ==
    IF n >= pd.start /\ n < pd.start + pd.len THEN 300 ELSE pd.level

\* len(power_data): the dip is followed by 60 more samples
cloud_samples(pd) == pd.start + pd.len + 60

NoRegs ==
    [ema_raw |-> 0, ema |-> 0, ema_ema_raw |-> 0, ema_ema |-> 0,
     ema_ema_ema_raw |-> 0, ema_ema_ema |-> 0]

\* x >> s on a numpy int64 scalar: a count outside 0..63 does not raise, it
\* leaves the sign of x alone, 0 or -1
numpy_right_shift(x, s) ==
    IF s < 0 \/ s > 63 THEN (IF x < 0 THEN -1 ELSE 0) ELSE x \div (2 ^ s)

\* one iteration of the loop of calculate_tema: element i of the six arrays
calculate_tema_step(prev, input_val, shift_A) ==
    LET shift_A_half    == shift_A - 1
        shift_A_quarter == shift_A - 2
        raw1 == prev.ema_raw - prev.ema + input_val
        e1   == numpy_right_shift(raw1, shift_A)
        raw2 == prev.ema_ema_raw - prev.ema_ema + e1
        e2   == numpy_right_shift(raw2, shift_A_half)
        raw3 == prev.ema_ema_ema_raw - prev.ema_ema_ema + e2
        e3   == numpy_right_shift(raw3, shift_A_quarter)
    IN [ema_raw |-> raw1, ema |-> e1, ema_ema_raw |-> raw2, ema_ema |-> e2,
        ema_ema_ema_raw |-> raw3, ema_ema_ema |-> e3]

\* element i of tema = 3 * (ema - ema_ema) + ema_ema_ema
tema_of(regs) == 3 * (regs.ema - regs.ema_ema) + regs.ema_ema_ema

TemaStep ==
    /\ tema_i < cloud_samples(power_data)
    /\ LET A    == delay_minutes * 12
           regs == calculate_tema_step(tema_regs, cloud_data(power_data, tema_i),
                                       round_up_to_power_of_2(A))
       IN /\ tema_regs' = regs
          /\ tema_values' = Append(tema_values, tema_of(regs))
    /\ tema_i' = tema_i + 1
    /\ UNCHANGED <<power_data, delay_minutes, relay_i, cloud_current_state,
                   cloud_relay_states>>
    /\ UNCHANGED <<relayVars, singleVars, filterVars, cmpVars, equivVars>>

\* a relay that follows the threshold without a dead band
relay_state_step_no_hysteresis(state, power, threshold, hysteresis) ==
    IF power >= threshold THEN 1 ELSE 0

\* current_state after one iteration of the loop of calculate_relay_states
relay_state_step(state, power, threshold, hysteresis) ==
    IF state = 0
    THEN (IF power >= threshold + hysteresis THEN 1 ELSE 0)
    ELSE (IF power <= threshold - hysteresis THEN 0 ELSE 1)

RelayStep ==
    /\ tema_i = cloud_samples(power_data)
    /\ relay_i < Len(tema_values)
    /\ LET st == relay_state_step(cloud_current_state, tema_values[relay_i + 1],
                                  1000, 100)
       IN /\ cloud_current_state' = st
          /\ cloud_relay_states' = Append(cloud_relay_states, st)
    /\ relay_i' = relay_i + 1
    /\ UNCHANGED <<power_data, delay_minutes, tema_i, tema_regs, tema_values>>
    /\ UNCHANGED <<relayVars, singleVars, filterVars, cmpVars, equivVars>>

CloudStart(level, start, len, delay) ==
    /\ power_data = [level |-> level, start |-> start, len |-> len]
    /\ delay_minutes = delay
    /\ tema_i = 0
    /\ tema_regs = NoRegs
    /\ tema_values = <<>>
    /\ relay_i = 0
    /\ cloud_current_state = 0
    /\ cloud_relay_states = <<>>

InitCloud ==
    \E level \in CloudLevels, start \in CloudStarts,
       len \in 1..MaxDipTicks, delay \in 1..MaxDelay :
        CloudStart(level, start, len, delay)

-----------------------------------------------------------------------------
(* compare_tema_implementations, and the three copies side by side *)

\* A = 32 of compare_tema_implementations
InlinePeriod == 32

\* the multi-alpha half of one iteration of the loop of
\* compare_tema_implementations, on Python integers
inline_multi_step(prev, sample, shift_base) ==
    LET multi_ema_raw         == prev.ema_raw - prev.ema + sample
        multi_ema             == shift_right(multi_ema_raw, shift_base)
        multi_ema_ema_raw     == prev.ema_ema_raw - prev.ema_ema + multi_ema
        multi_ema_ema         == shift_right(multi_ema_ema_raw, shift_base - 1)
        multi_ema_ema_ema_raw == prev.ema_ema_ema_raw - prev.ema_ema_ema
                                    + multi_ema_ema
        multi_ema_ema_ema     == shift_right(multi_ema_ema_ema_raw,
                                             shift_base - 2)
    IN [regs |-> [ema_raw |-> multi_ema_raw, ema |-> multi_ema,
                  ema_ema_raw |-> multi_ema_ema_raw, ema_ema |-> multi_ema_ema,
                  ema_ema_ema_raw |-> multi_ema_ema_ema_raw,
                  ema_ema_ema |-> multi_ema_ema_ema],
        multi_tema |-> 3 * (multi_ema - multi_ema_ema) + multi_ema_ema_ema]

\* the periods the copies are run with: short ones and the inline loop's
EquivPeriods == (1..MaxEquivPeriod) \cup {InlinePeriod}

\* one sample given to the three copies; calculate_tema gets the period as
\* delay_minutes = A / 12, and an exception of the class ends the run
EquivStep ==
    /\ eq_status = "ok"
    /\ eq_n < MaxEquivTicks
    /\ \E x \in FilterInputs :
          LET r == add_value(eq_class, x)
              a == calculate_tema_step(eq_array, x, round_up_to_power_of_2(eq_A))
              l == inline_multi_step(eq_inline, x,
                                     round_up_to_power_of_2(InlinePeriod))
          IN /\ eq_class' = r.obj
             /\ eq_status' = r.status
             /\ eq_array' = a
             /\ eq_inline' = l.regs
             /\ eq_out' = [class |-> r.result.tema, array |-> tema_of(a),
                           inline |-> l.multi_tema]
    /\ eq_n' = eq_n + 1
    /\ UNCHANGED eq_A
    /\ UNCHANGED <<relayVars, singleVars, filterVars, cmpVars, cloudVars>>

EquivStart(A) ==
    /\ eq_A = A
    /\ eq_class = new_multi_tema(A)
    /\ eq_status = "ok"
    /\ eq_array = NoRegs
    /\ eq_inline = NoRegs
    /\ eq_out = [class |-> 0, array |-> 0, inline |-> 0]
    /\ eq_n = 0

InitEquiv == \E A \in EquivPeriods : EquivStart(A)

-----------------------------------------------------------------------------
(* Specifications *)

\* the default call of each part, left untouched by the other parts' runs
IdleRelays == RelaysStart(0)
IdleSingle == SingleStart(0, -50)
IdleFilter == FilterStart(32)
IdleCompare == CompareStart(24)
IdleCloud == CloudStart(1000, 25, 15, 2)
IdleEquiv == EquivStart(32)
IdleOthers == IdleCompare /\ IdleCloud /\ IdleEquiv

Init == InitRelays /\ IdleSingle /\ IdleFilter /\ IdleOthers
Next == EvalRelay \/ NextTick
Spec == Init /\ [][Next]_vars

RampInit == InitRamp /\ IdleSingle /\ IdleFilter /\ IdleOthers
RampNext == EvalRelay \/ NextTickRamp
SpecRamp == RampInit /\ [][RampNext]_vars

SingleInit == IdleRelays /\ InitSingle /\ IdleFilter /\ IdleOthers
SingleNext == ImportStep \/ SurplusStep
SpecSingle == SingleInit /\ [][SingleNext]_vars

FilterInit == IdleRelays /\ IdleSingle /\ InitFilter /\ IdleOthers
FilterNext == AddValue
SpecFilter == FilterInit /\ [][FilterNext]_vars

\* the filter fed from an array that may hold infinities
RangeNext == AddRawValue
SpecRange == FilterInit /\ [][RangeNext]_vars

\* free inputs, then one input repeated for as long as calls are made
HoldInit == IdleRelays /\ IdleSingle /\ InitHold /\ IdleOthers
HoldNext == AddValue \/ AddSameValue
SpecHold == HoldInit /\ [][HoldNext]_vars /\ WF_vars(AddSameValue)

\* simulate_multi_relay_progressive with its list of relays edited
ConfigInit == InitConfig /\ IdleSingle /\ IdleFilter /\ IdleOthers
ConfigNext == EvalRelay \/ NextTickConfig
SpecConfig == ConfigInit /\ [][ConfigNext]_vars

\* the same on a constant net_balance
SameNext == EvalRelay \/ NextTickSame
SpecSame == ConfigInit /\ [][SameNext]_vars

\* run_filter_comparison on any input_data
CompareInit ==
    IdleRelays /\ IdleSingle /\ IdleFilter /\ InitCompare /\ IdleCloud /\ IdleEquiv
CompareNext == SimpleAdd \/ MultiAdd \/ StandardAdd
SpecCompare == CompareInit /\ [][CompareNext]_vars

\* run_filter_comparison on the step scenario
StepNext == SimpleAddStep \/ MultiAdd \/ StandardAdd
SpecStep == CompareInit /\ [][StepNext]_vars

\* calculate_tema, then calculate_relay_states on what it returned
CloudInit ==
    IdleRelays /\ IdleSingle /\ IdleFilter /\ IdleCompare /\ InitCloud /\ IdleEquiv
CloudNext == TemaStep \/ RelayStep
SpecCloud == CloudInit /\ [][CloudNext]_vars

\* the class, calculate_tema and the inline loop on the same samples
EquivInit ==
    IdleRelays /\ IdleSingle /\ IdleFilter /\ IdleCompare /\ IdleCloud /\ InitEquiv
EquivNext == EquivStep
SpecEquiv == EquivInit /\ [][EquivNext]_vars

-----------------------------------------------------------------------------
(* Properties of simulate_multi_relay_progressive *)

\* the step that decides relay k
Decides(k) == j = k /\ j' = k + 1

\* C1: a load that was OFF at the previous tick is ON after the current tick
\* if and only if its surplus figure exceeds power + |threshold| and at
\* least min_off_time ticks have passed since its last transition.
C1_TurnOnIff ==
    [][\A k \in DOMAIN relays :
          (Decides(k) /\ ~was_on_of(k, i, prev_states)) =>
             (relay_states'[k] <=>
                 /\ surplus_for_this_relay'[k]
                       > relays[k].power + abs(relays[k].threshold)
                 /\ i - last_state_change[k] >= relays[k].min_off_time)]_vars

\* the heat pump turns ON again, 20 or more ticks after it turned OFF,
\* while the pool pump was ON
C1_Witness ==
    /\ PassDone
    /\ i >= 40
    /\ ~prev_states[0] /\ relay_states[0]
    /\ prev_states[1]
    /\ surplus_for_this_relay[0] = current_surplus - relays[1].power

\* C2: a load that was ON at the previous tick is OFF after the current tick
\* if and only if (its surplus figure - power) is below |threshold| and at
\* least min_on_time ticks have passed since its last transition.
C2_TurnOffIff ==
    [][\A k \in DOMAIN relays :
          (Decides(k) /\ was_on_of(k, i, prev_states)) =>
             (~relay_states'[k] <=>
                 /\ surplus_for_this_relay'[k] - relays[k].power
                       < abs(relays[k].threshold)
                 /\ i - last_state_change[k] >= relays[k].min_on_time)]_vars

\* the heat pump turns OFF once its 20 ticks are over
C2_Witness ==
    /\ PassDone
    /\ prev_states[0] /\ ~relay_states[0]
    /\ last_state_change[0] = i
    /\ i >= relays[0].min_on_time

\* C3: every change of a load's state that follows an earlier change happens
\* at least min_on_time ticks after it when the load turns OFF and at least
\* min_off_time ticks after it when the load turns ON.
C3_DwellEnforced ==
    [][\A k \in DOMAIN relays :
          (/\ Decides(k)
           /\ relay_states'[k] # was_on_of(k, i, prev_states)
           /\ last_flip[k] # InitialLastChange) =>
             i - last_flip[k] >=
                 (IF was_on_of(k, i, prev_states)
                  THEN relays[k].min_on_time
                  ELSE relays[k].min_off_time)]_vars

\* the heat pump meets its turn-off condition 5 ticks after it turned ON
\* and is still ON after that tick
C3_Witness ==
    /\ PassDone
    /\ relay_states[0]
    /\ last_flip[0] # InitialLastChange
    /\ i - last_flip[0] = 5
    /\ surplus_for_this_relay[0] - relays[0].power < abs(relays[0].threshold)

\* the power of the loads ranked before l that are ON in row `cur`, plus
\* the power of the loads ranked after l that are ON in row `prev`
RECURSIVE SamePassLoad(_, _, _, _)
SamePassLoad(k, l, prev, cur) ==
    IF k >= NumRelays THEN 0
    ELSE (IF k < l /\ cur[k] THEN relays[k].power
          ELSE IF k > l /\ prev[k] THEN relays[k].power
          ELSE 0)
         + SamePassLoad(k + 1, l, prev, cur)

\* C4: the surplus figure used to decide a load reflects the states decided
\* earlier in the same pass for the higher-priority loads.
C4_SurplusReflectsSamePass ==
    PassDone =>
        \A l \in DOMAIN relays :
            surplus_for_this_relay[l] =
                current_surplus - SamePassLoad(0, l, prev_states, relay_states)

RECURSIVE PowerOn(_, _)
PowerOn(k, states) ==
    IF k >= NumRelays THEN 0
    ELSE (IF states[k] THEN relays[k].power ELSE 0) + PowerOn(k + 1, states)

\* C5: after every full pass the power of the loads left ON does not exceed
\* the surplus of that tick.
C5_NoOvercommit ==
    PassDone => PowerOn(0, relay_states) <= current_surplus

\* C6: on the declining ramp, whenever the rank-1 load turns OFF the rank-2
\* load has turned OFF at that tick or at an earlier one.
C6_ShedOrder ==
    (PassDone /\ prev_states[0] /\ ~relay_states[0]) =>
        (~relay_states[1] \/ last_flip[1] > 0)

-----------------------------------------------------------------------------
(* Properties of the single-relay controllers *)

\* C7: with an import threshold >= 0 the import-referenced relay, once ON,
\* is ON after every later tick.
C7_ImportLatch ==
    [][(imp_threshold >= 0 /\ imp_state) => imp_state']_vars

\* the relay is still ON after a tick whose balance is below the relay's power
C7_Witness ==
    /\ imp_threshold >= 0
    /\ imp_i >= 2
    /\ imp_state
    /\ imp_balance - RelayPower < 0

\* C8: after a tick whose balance less the relay's power is below |threshold|
\* the surplus-referenced relay is OFF.
C8_SurplusTurnsOff ==
    (sur_i > 0 /\ sur_balance - RelayPower < abs(sur_threshold)) => ~sur_state

\* the surplus-referenced relay goes from ON to OFF on the balance that
\* leaves the import-referenced relay ON
C8_Witness ==
    /\ sur_prev /\ ~sur_state
    /\ sur_balance - RelayPower < 0
    /\ imp_balance = sur_balance
    /\ imp_threshold >= 0 /\ imp_state

-----------------------------------------------------------------------------
(* Properties of the filter *)

\* C9: an update that returns has accumulated input - previous stage-1 output
\* into stage 1 and shifted by s, then run the same recurrence on the fresh
\* stage-1 output at s-1, then on the fresh stage-2 output at s-2, and has
\* returned 3*(stage1 - stage2) + stage3.
C9_UpdateOrder ==
    [][(tema_n' = tema_n + 1 /\ tema_status' = "ok") =>
          LET f == multi_tema
              g == multi_tema'
              s == multi_tema.shift_A
          IN /\ g.ema_raw = f.ema_raw + (tema_input' - f.ema)
             /\ g.ema = g.ema_raw \div (2 ^ s)
             /\ g.ema_ema_raw = f.ema_ema_raw + (g.ema - f.ema_ema)
             /\ g.ema_ema = g.ema_ema_raw \div (2 ^ (s - 1))
             /\ g.ema_ema_ema_raw = f.ema_ema_ema_raw + (g.ema_ema - f.ema_ema_ema)
             /\ g.ema_ema_ema = g.ema_ema_ema_raw \div (2 ^ (s - 2))
             /\ tema_result'.tema = 3 * (g.ema - g.ema_ema) + g.ema_ema_ema]_vars

\* an update has returned with the three stages on three different values
C9_Witness ==
    /\ tema_status = "ok"
    /\ tema_n >= 2
    /\ multi_tema.ema # multi_tema.ema_ema
    /\ multi_tema.ema_ema # multi_tema.ema_ema_ema
    /\ multi_tema.ema_ema_ema # 0
    /\ tema_input < 0

RECURSIVE IsPowerOfTwo(_)
IsPowerOfTwo(v) ==
    \/ v = 1
    \/ (v > 1 /\ v % 2 = 0 /\ IsPowerOfTwo(v \div 2))

\* the least k with 2^k >= v, for v >= 1
RECURSIVE CeilLog2(_)
CeilLog2(v) == IF v <= 1 THEN 0 ELSE 1 + CeilLog2((v + 1) \div 2)

C11_ShiftIsLog2MinusOne ==
    IsPowerOfTwo(multi_tema.A) =>
        2 ^ (multi_tema.shift_A + 1) = multi_tema.A

\* a filter of period 32 has been built with shift 4 and updated
C11_Witness ==
    /\ IsPowerOfTwo(multi_tema.A)
    /\ multi_tema.A = 32
    /\ multi_tema.shift_A = 4
    /\ tema_n > 0

\* every stage output is within one unit of c and the composite output is c
AtFixedPoint(f, out, c) ==
    /\ abs(f.ema - c) <= 1
    /\ abs(f.ema_ema - c) <= 1
    /\ abs(f.ema_ema_ema - c) <= 1
    /\ out.tema = c

\* C12: from zeroed registers or any reachable filter state, once the same
\* input c is fed at every tick to a filter whose update returns, the three
\* stage outputs eventually are within one unit of c and the composite
\* output is c, and they stay so at every later tick.
C12_FixedPoint ==
    (tema_hold /\ tema_status = "ok") ~>
        [](AtFixedPoint(multi_tema, tema_result, tema_input))

\* a filter that free inputs had moved away from -1000 rests on -1000
C12_Witness ==
    /\ tema_hold
    /\ tema_status = "ok"
    /\ tema_n >= 2
    /\ tema_input = -1000
    /\ multi_tema.ema = -1000
    /\ multi_tema.ema_ema = -1000
    /\ multi_tema.ema_ema_ema = -1000
    /\ tema_result.tema = -1000
    /\ multi_tema.shift_A = 3

-----------------------------------------------------------------------------
(* Properties of the filter comparison *)

\* the index of the first element of seq that is >= level, 0 when there is none
RECURSIVE FirstReach(_, _, _)
FirstReach(seq, level, n) ==
    IF n > Len(seq) THEN 0
    ELSE IF seq[n] >= level THEN n
    ELSE FirstReach(seq, level, n + 1)

\* C13: on the step from 0 to 1000 W, when the equal-shift composite has
\* reached 950 W the accelerated composite has reached it at an earlier tick.
C13_AcceleratedReachesFirst ==
    LET multi    == FirstReach(results.multi_tema, 950, 1)
        standard == FirstReach(results.standard_tema, 950, 1)
    IN standard # 0 => (multi # 0 /\ multi < standard)

-----------------------------------------------------------------------------
(* Properties of the relay configuration and of the filter's outcome *)

\* the margin above the rated power at which a load turns ON
TurnOnMargin(relay) == turn_on_threshold(relay) - relay.power

\* the level of (surplus - power) below which a load turns OFF
TurnOffThreshold(relay) == abs(relay.threshold)

\* C14: no tick is evaluated for a load whose turn-on margin is not strictly
\* above its turn-off threshold.
C14_GapEnforced ==
    \A k \in DOMAIN relays :
        (i > 0 \/ j > k) => TurnOnMargin(relays[k]) > TurnOffThreshold(relays[k])

\* C15: for every period >= 1 and every input, building the filter and
\* calling the update completes and returns a value.
C15_NoErrorOutcome ==
    tema_n > 0 => (tema_status = "ok" /\ multi_tema.shift_A_quarter >= 0)

LowestInput == CHOOSE x \in FilterInputs : \A y \in FilterInputs : x <= y

HighestInput == CHOOSE x \in FilterInputs : \A y \in FilterInputs : x >= y

\* the accumulator of a stage of shift k is in [L * 2^k, (H+1) * 2^k - 1]
\* and its output is in [L, H]
StageInRange(raw, out, k) ==
    /\ raw >= LowestInput * (2 ^ k)
    /\ raw <= (HighestInput + 1) * (2 ^ k) - 1
    /\ out >= LowestInput
    /\ out <= HighestInput

\* C16: with the inputs in [L, H], L <= 0 <= H, after any sequence of updates
\* from zeroed registers every stage whose shift k is usable has its
\* accumulator in [L * 2^k, (H+1) * 2^k - 1] and its output in [L, H].
C16_AccumulatorsInRange ==
    LET f == multi_tema
    IN /\ f.shift_A >= 0 =>
             StageInRange(f.ema_raw, f.ema, f.shift_A)
       /\ f.shift_A_half >= 0 =>
             StageInRange(f.ema_ema_raw, f.ema_ema, f.shift_A_half)
       /\ f.shift_A_quarter >= 0 =>
             StageInRange(f.ema_ema_ema_raw, f.ema_ema_ema, f.shift_A_quarter)

\* the three outputs rest on the lowest input, the first accumulator being
\* in the range's lowest 2^k values, after free inputs
C16_Witness ==
    /\ tema_status = "ok"
    /\ tema_n >= 2
    /\ multi_tema.shift_A = 3
    /\ multi_tema.ema = LowestInput
    /\ multi_tema.ema_ema = LowestInput
    /\ multi_tema.ema_ema_ema = LowestInput
    /\ multi_tema.ema_raw < (LowestInput + 1) * (2 ^ multi_tema.shift_A)
    /\ LowestInput < 0 /\ HighestInput > 0

-----------------------------------------------------------------------------
(* Properties of the surplus figure and of the transition record *)

\* the power of the loads other than l that are ON when l is decided: the
\* loads already decided at this tick in `cur`, the others in `prev`
RECURSIVE OthersOn(_, _, _, _)
OthersOn(k, l, prev, cur) ==
    IF k >= NumRelays THEN 0
    ELSE (IF k # l /\ (IF k < l THEN cur[k] ELSE prev[k])
          THEN relays[k].power ELSE 0)
         + OthersOn(k + 1, l, prev, cur)

\* C17: the surplus figure used to decide a load is the tick's balance less
\* the rated power of exactly the other loads that are ON, its own rated
\* power never being subtracted.
C17_SurplusExcludesOnlySelf ==
    [][\A l \in DOMAIN relays :
          Decides(l) =>
             surplus_for_this_relay'[l] =
                 current_surplus - OthersOn(0, l, prev_states, relay_states)]_vars

\* C18: a tick at which neither the turn-on nor the turn-off condition of a
\* load holds leaves its state and its last_state_change as they were, and
\* last_state_change becomes the current tick exactly when the state changes.
C18_FrameOfDecision ==
    [][\A k \in DOMAIN relays :
          Decides(k) =>
             LET was == was_on_of(k, i, prev_states)
                 fig == surplus_for_this_relay'[k]
                 tsc == i - last_state_change[k]
                 on  == /\ ~was
                        /\ fig > relays[k].power + abs(relays[k].threshold)
                        /\ tsc >= relays[k].min_off_time
                 off == /\ was
                        /\ fig - relays[k].power < abs(relays[k].threshold)
                        /\ tsc >= relays[k].min_on_time
             IN /\ (~on /\ ~off) =>
                      /\ relay_states'[k] = was
                      /\ last_state_change'[k] = last_state_change[k]
                /\ (relay_states'[k] # was) <=>
                      (last_state_change'[k] # last_state_change[k])
                /\ (relay_states'[k] # was) => last_state_change'[k] = i
                /\ \A l \in DOMAIN relays \ {k} :
                      last_state_change'[l] = last_state_change[l]]_vars

\* the heat pump, ON for less than 20 ticks, sees its turn-off level without
\* its dwell time: it stays ON and its last_state_change stays
C18_Witness ==
    /\ PassDone
    /\ prev_states[0] /\ relay_states[0]
    /\ surplus_for_this_relay[0] - relays[0].power < abs(relays[0].threshold)
    /\ i - last_state_change[0] > 0
    /\ i - last_state_change[0] < relays[0].min_on_time
    /\ last_flip[0] = last_state_change[0]

-----------------------------------------------------------------------------
(* Properties of the filtered relay on a cloud signal *)

\* the relay is OFF at some tick from the first sample of the dip on
OffAfterDipStart ==
    \E n \in (power_data.start + 1)..Len(cloud_relay_states) :
        cloud_relay_states[n] = 0

\* the filter output rests on the signal's level and the relay is ON at the
\* last tick before the dip
SettledOnBeforeDip ==
    /\ Len(cloud_relay_states) >= power_data.start
    /\ cloud_relay_states[power_data.start] = 1
    /\ tema_values[power_data.start] = power_data.level

\* C19: with the relay ON and the filter settled, a dip shorter than the
\* period does not turn the relay OFF and a dip longer than the period does.
C19_DipImmunity ==
    LET tau == delay_minutes * 12
    IN SettledOnBeforeDip =>
          /\ power_data.len < tau => ~OffAfterDipStart
          /\ (power_data.len > tau
                /\ Len(cloud_relay_states) = cloud_samples(power_data))
                => OffAfterDipStart

-----------------------------------------------------------------------------
(* Properties of the three filter objects *)

\* a MultiAlphaTEMA fed seq on its own: the object and its tema outputs
RECURSIVE multi_alone(_, _)
multi_alone(f, seq) ==
    IF seq = <<>> THEN [obj |-> f, out |-> <<>>]
    ELSE LET r    == add_value(f, Head(seq))
             rest == multi_alone(r.obj, Tail(seq))
         IN [obj |-> rest.obj, out |-> <<r.result.tema>> \o rest.out]

\* a StandardTEMA fed seq on its own
RECURSIVE standard_alone(_, _)
standard_alone(f, seq) ==
    IF seq = <<>> THEN [obj |-> f, out |-> <<>>]
    ELSE LET r    == standard_add_value(f, Head(seq))
             rest == standard_alone(r.obj, Tail(seq))
         IN [obj |-> rest.obj, out |-> <<r.result.tema>> \o rest.out]

\* a SimpleEMA fed seq on its own
RECURSIVE simple_alone(_, _)
simple_alone(f, seq) ==
    IF seq = <<>> THEN [obj |-> f, out |-> <<>>]
    ELSE LET r    == simple_add_value(f, Head(seq))
             rest == simple_alone(r.obj, Tail(seq))
         IN [obj |-> rest.obj, out |-> <<r.result>> \o rest.out]

\* after every full pass of the loop body each object and each output list
\* is what the object's own period and the samples alone produce
EachAsAlone ==
    (cmp_pc = "simple_ema") =>
        LET A == cmp_filters.multi_tema.A
            m == multi_alone(new_multi_tema(A), cmp_consumed)
            t == standard_alone(new_standard_tema(A), cmp_consumed)
            e == simple_alone(new_simple_ema(A), cmp_consumed)
        IN /\ cmp_filters.multi_tema = m.obj
           /\ results.multi_tema = m.out
           /\ cmp_filters.standard_tema = t.obj
           /\ results.standard_tema = t.out
           /\ cmp_filters.simple_ema = e.obj
           /\ results.simple_ema = e.out

\* C20: an update of one filter object leaves every register of the other
\* objects unchanged, and each object's outputs depend only on its own period
\* and its own input sequence.
C20_InstanceIsolation ==
    /\ [][\A n \in DOMAIN cmp_filters :
             cmp_pc # n => cmp_filters'[n] = cmp_filters[n]]_vars
    /\ []EachAsAlone

\* three samples have gone through the three objects, which now hold three
\* different composites' worth of registers
C20_Witness ==
    /\ cmp_pc = "simple_ema"
    /\ Len(cmp_consumed) = 3
    /\ cmp_filters.multi_tema.ema = cmp_filters.standard_tema.ema
    /\ cmp_filters.multi_tema.ema = cmp_filters.simple_ema.ema
    /\ cmp_filters.multi_tema.ema # 0
    /\ cmp_filters.multi_tema.ema_ema # cmp_filters.standard_tema.ema_ema
    /\ cmp_filters.standard_tema.ema_ema # 0

-----------------------------------------------------------------------------
(* Properties of the list of relays *)

\* power > 0, minimum times >= 0, no priority shared by two loads
ValidConfig(cfg) ==
    /\ \A k \in DOMAIN cfg :
          /\ cfg[k].power > 0
          /\ cfg[k].min_on_time >= 0
          /\ cfg[k].min_off_time >= 0
    /\ \A k, l \in DOMAIN cfg : k # l => cfg[k].priority # cfg[l].priority

ZeroDwell(cfg) ==
    \A k \in DOMAIN cfg : cfg[k].min_on_time = 0 /\ cfg[k].min_off_time = 0

C22_RangeErrorClamped ==
    (tema_n > 0 /\ ~tema_raw.finite) => tema_status = "ok"

\* the orders in which the inner loop could visit the loads
Orders ==
    {o \in [1..NumRelays -> DOMAIN relays] :
        \A a, b \in 1..NumRelays : a # b => o[a] # o[b]}

\* the row of tick i and last_state_change once load jj has been decided
after_relay(st, jj) ==
    LET relay   == relays[jj]
        was_on  == was_on_of(jj, i, prev_states)
        tsc     == i - st.last_change[jj]
        surplus == current_surplus
                     - other_relay_load(jj, i, prev_states, st.states)
        on      == can_turn_on(was_on, surplus, tsc, relay)
        off     == can_turn_off(was_on, surplus, tsc, relay)
        new     == IF on THEN TRUE ELSE IF off THEN FALSE ELSE was_on
    IN [states      |-> [st.states EXCEPT ![jj] = new],
        last_change |-> IF on \/ off
                        THEN [st.last_change EXCEPT ![jj] = i]
                        ELSE st.last_change]

\* the first n loads of `order` decided one after the other
RECURSIVE pass_in_order(_, _, _)
pass_in_order(order, n, st) ==
    IF n = 0 THEN st
    ELSE after_relay(pass_in_order(order, n - 1, st), order[n])

\* C24: the states and the last-transition ticks of all loads after a tick
\* are the same whatever the order in which the loads are evaluated within
\* the tick. Every step of the inner loop is the decision after_relay, and
\* at the start of a pass all orders of these decisions end in one result.
C24_OrderIndependent ==
    [][(j' = j + 1) =>
          LET st == [states |-> relay_states, last_change |-> last_state_change]
          IN /\ [states |-> relay_states', last_change |-> last_state_change']
                   = after_relay(st, j)
             /\ j = 0 =>
                   \A o1, o2 \in Orders :
                      pass_in_order(o1, NumRelays, st)
                         = pass_in_order(o2, NumRelays, st)]_vars

\* a pass of three loads, after tick 0, in which two loads changed state
C24_Witness ==
    /\ PassDone
    /\ i > 0
    /\ NumRelays = 3
    /\ \E a, b \in DOMAIN relays :
          /\ a # b
          /\ relay_states[a] # prev_states[a]
          /\ relay_states[b] # prev_states[b]

\* C25 (as stated): after every tick the surplus-referenced relay is ON
\* exactly when net_balance[i] - relay_power >= |import_threshold|,
\* whatever its state at tick i-1.
C25_Memoryless ==
    sur_i > 0 =>
        (sur_state <=> sur_balance - RelayPower >= abs(sur_threshold))

\* C25 (amended): after every tick the relay is ON exactly when
\* net_balance[i] - relay_power >= |import_threshold| and it was ON at tick
\* i-1 or net_balance[i] > relay_power; the state at tick i-1 matters only
\* for import_threshold = 0 and net_balance[i] = relay_power.
C25_MemorylessButAtZero ==
    sur_i > 0 =>
        /\ sur_state <=>
              /\ sur_balance - RelayPower >= abs(sur_threshold)
              /\ sur_prev \/ sur_balance > RelayPower
        /\ (sur_threshold # 0 \/ sur_balance # RelayPower) =>
              (sur_state <=> sur_balance - RelayPower >= abs(sur_threshold))

\* an OFF relay left OFF at net_balance[i] = relay_power, import_threshold 0
C25_Witness ==
    /\ sur_i > 0
    /\ sur_threshold = 0
    /\ sur_balance = RelayPower
    /\ ~sur_prev
    /\ ~sur_state

\* C26: every load starts OFF with last_state_change at -999, so with
\* min_off_time <= 999 a load that has never changed state and whose
\* turn-on surplus condition holds is turned ON, at tick 0 in particular,
\* where it records tick 0 as its last transition; a load ON since tick 0 is
\* kept ON at every tick before min_on_time.
C26_FirstTickDwell ==
    [][\A k \in DOMAIN relays :
          Decides(k) =>
             /\ (/\ last_state_change[k] = InitialLastChange
                 /\ relays[k].min_off_time <= 999
                 /\ surplus_for_this_relay'[k]
                       > relays[k].power + abs(relays[k].threshold)) =>
                    (relay_states'[k] /\ last_state_change'[k] = i)
             /\ (/\ i = 0
                 /\ relays[k].min_off_time <= 999
                 /\ current_surplus
                       > relays[k].power + abs(relays[k].threshold)) =>
                    (relay_states'[k] /\ last_state_change'[k] = 0)
             /\ (/\ i > 0
                 /\ last_state_change[k] = 0
                 /\ i < relays[k].min_on_time) =>
                    (relay_states'[k] /\ last_state_change'[k] = 0)]_vars

\* the heat pump with min_off_time 999 went ON at tick 0 and is held ON at
\* tick 1 although its turn-off condition holds
C26_Witness ==
    /\ relays = long_off_relays
    /\ PassDone
    /\ i = 1
    /\ relay_states[0]
    /\ last_state_change[0] = 0
    /\ surplus_for_this_relay[0] - relays[0].power < abs(relays[0].threshold)

C28_CopiesAgree ==
    eq_n > 0 =>
        /\ eq_status = "ok"
        /\ eq_out.class = eq_out.array
        /\ eq_A = InlinePeriod => eq_out.inline = eq_out.class

\* C29: for the same period and the same input sequence the stage-1 outputs
\* of MultiAlphaTEMA, StandardTEMA and SimpleEMA are equal at every tick: the
\* lists 'multi_ema' and 'standard_ema' repeat 'simple_ema' entry by entry,
\* and after every full iteration the three objects hold the same stage-1
\* accumulator and output.
C29_StageOneAgrees ==
    /\ \A n \in 1..Len(results.multi_ema) :
          results.multi_ema[n] = results.simple_ema[n]
    /\ \A n \in 1..Len(results.standard_ema) :
          results.standard_ema[n] = results.simple_ema[n]
    /\ cmp_pc = "simple_ema" =>
          /\ cmp_filters.multi_tema.ema = cmp_filters.simple_ema.ema
          /\ cmp_filters.standard_tema.ema = cmp_filters.simple_ema.ema
          /\ cmp_filters.multi_tema.ema_raw = cmp_filters.simple_ema.ema_raw
          /\ cmp_filters.standard_tema.ema_raw = cmp_filters.simple_ema.ema_raw

\* three samples in, the two triple filters return different composite
\* outputs behind a non-zero stage-1 output
C29_Witness ==
    /\ cmp_pc = "simple_ema"
    /\ Len(results.simple_ema) = 3
    /\ Len(results.standard_ema) = 3
    /\ results.simple_ema[3] # 0
    /\ results.multi_tema[3] # results.standard_tema[3]

\* C30: the filtered-value relay (threshold 1000, hysteresis 100) starts OFF,
\* goes from OFF to ON only at a tick whose filtered value is >= 1100 and
\* from ON to OFF only at a tick whose filtered value is <= 900, and keeps
\* its state at every tick whose filtered value is strictly between 900 and
\* 1100; the state stored for a tick is the state after that tick.
C30_HysteresisBand ==
    [][/\ relay_i = 0 => cloud_current_state = 0
       /\ (relay_i' = relay_i + 1) =>
             LET power == tema_values[relay_i + 1]
             IN /\ (cloud_current_state = 0 /\ cloud_current_state' = 1) =>
                      power >= 1100
                /\ (cloud_current_state = 1 /\ cloud_current_state' = 0) =>
                      power <= 900
                /\ (power > 900 /\ power < 1100) =>
                      cloud_current_state' = cloud_current_state
                /\ cloud_relay_states'[relay_i + 1] = cloud_current_state'
                /\ cloud_current_state' \in {0, 1}]_vars

\* the relay is ON after a tick whose filtered value is inside the band,
\* below the threshold
C30_Witness ==
    /\ relay_i > 0
    /\ cloud_current_state = 1
    /\ tema_values[relay_i] > 900
    /\ tema_values[relay_i] < 1000

====
